---- MODULE Spec2Model ----
(***************************************************************************)
(* Bespoke Cakes API (src/main.py): the startup seeding step, the two     *)
(* read endpoints /cakes and /cakes/{slug}, the normaliser to_cake_out    *)
(* and the static fallback, over a document store.                        *)
(*                                                                         *)
(* Stored values are loosely typed, so every stored field is a tagged     *)
(* value: Absent (key not in the document), Null (Python None), Str, Num, *)
(* Bool, Txt (a string kept as a sequence of tokens, so that slugify can  *)
(* be computed on it) or List.                                            *)
(***************************************************************************)
EXTENDS Integers, Sequences, FiniteSets, TLC

VARIABLES
    pc,            \* "boot": ensure_seed_data() has not run; "serving"; "aborted"
    db,            \* what `from database import db` gives this process
    store,         \* the documents of db["cake"], in store order
    def_fallback,  \* the module-level list _def_fallback
    seed_result,   \* how the last run of ensure_seed_data ended
    req,           \* the last request answered since the collection last changed
    resp           \* the response to it

vars == <<pc, db, store, def_fallback, seed_result, req, resp>>

\* Largest number of documents the administrative path inserts up to.
MaxStore == 2

(***************************************************************************)
(* Loosely typed values                                                    *)
(***************************************************************************)
Absent == [tag |-> "absent"]
Null == [tag |-> "null"]
Str(s) == [tag |-> "str", s |-> s]
Num(n) == [tag |-> "num", n |-> n]
Bool(b) == [tag |-> "bool", b |-> b]
Txt(toks) == [tag |-> "txt", toks |-> toks]
List(items) == [tag |-> "list", items |-> items]

\* dict.get(key): None when the key is missing.
Get(doc, key) == IF doc[key] = Absent THEN Null ELSE doc[key]

\* dict.get(key, default)
GetD(doc, key, default) == IF doc[key] = Absent THEN default ELSE doc[key]

\* Python truthiness of a value (used by `or`, `if category:` and bool()).
Truthy(v) ==
    CASE v.tag = "absent" -> FALSE
      [] v.tag = "null" -> FALSE
      [] v.tag = "str" -> v.s /= ""
      [] v.tag = "txt" -> v.toks /= <<>>
      [] v.tag = "num" -> v.n /= 0
      [] v.tag = "bool" -> v.b
      [] v.tag = "list" -> v.items /= <<>>

(***************************************************************************)
(* The response models of main.py                                          *)
(***************************************************************************)
Categories == {"Wedding", "Birthday", "Signature", "Corporate", "Seasonal"}

OptionNames == {"Size", "Flavor", "Filling", "Frosting"}

\* PriceAdjust: label: str, amount: float (no lower bound in main.py).
PriceAdjustValid(v) == v.amount \in Int

\* CakeOption: name is a Literal of the four option names.
CakeOptionValid(o) ==
    /\ o.name \in OptionNames
    /\ \A i \in 1..Len(o.values) : PriceAdjustValid(o.values[i])

\* Optional[List[CakeOption]]
OptionsValid(v) ==
    \/ v.tag = "null"
    \/ /\ v.tag = "list"
       /\ \A i \in 1..Len(v.items) : CakeOptionValid(v.items[i])

\* float(x): numbers convert, numeric strings parse, anything else raises.
FloatOk(v) ==
    \/ v.tag = "num"
    \/ v.tag = "bool"
    \/ v.tag = "str" /\ v.s \in {"0", "40"}

Float(v) ==
    CASE v.tag = "num" -> v.n
      [] v.tag = "bool" -> IF v.b THEN 1 ELSE 0
      [] v.tag = "str" -> IF v.s = "40" THEN 40 ELSE 0

(***************************************************************************)
(* slugify: "-".join(name.lower().strip().split())                         *)
(* A string is a sequence of tokens: words (no whitespace inside) and the  *)
(* whitespace token " ". Adjacent words are one word of the string.       *)
(***************************************************************************)
IsSpace(t) == t = " "

\* The one-token string "cake", the default of doc.get("name", "cake").
CakeWord == <<"cake">>

Lower(t) ==
    CASE t = "Madagascar" -> "madagascar"
      [] t = "Vanilla" -> "vanilla"
      [] t = "Classic" -> "classic"
      [] t = "Dark" -> "dark"
      [] t = "Cocoa" -> "cocoa"
      [] t = "Truffle" -> "truffle"
      [] t = "Berry" -> "berry"
      [] t = "Velvet" -> "velvet"
      [] t = "Lemon" -> "lemon"
      [] t = "Drizzle" -> "drizzle"
      [] OTHER -> t

LowerAll(toks) == [i \in 1..Len(toks) |-> Lower(toks[i])]

RECURSIVE LStrip(_)
LStrip(toks) ==
    IF toks /= <<>> /\ IsSpace(Head(toks)) THEN LStrip(Tail(toks)) ELSE toks

RECURSIVE RStrip(_)
RStrip(toks) ==
    IF toks /= <<>> /\ IsSpace(toks[Len(toks)])
    THEN RStrip(SubSeq(toks, 1, Len(toks) - 1))
    ELSE toks

Strip(toks) == RStrip(LStrip(toks))

\* str.split(): the maximal runs of non-whitespace, each joined into a word.
RECURSIVE SplitFrom(_, _, _)
SplitFrom(toks, word, words) ==
    IF toks = <<>>
    THEN IF word = "" THEN words ELSE Append(words, word)
    ELSE IF IsSpace(Head(toks))
         THEN SplitFrom(Tail(toks), "",
                        IF word = "" THEN words ELSE Append(words, word))
         ELSE SplitFrom(Tail(toks), word \o Head(toks), words)

Split(toks) == SplitFrom(toks, "", <<>>)

RECURSIVE Join(_, _)
Join(sep, words) ==
    IF words = <<>> THEN ""
    ELSE IF Len(words) = 1 THEN words[1]
    ELSE words[1] \o sep \o Join(sep, Tail(words))

slugify(name) == Join("-", Split(Strip(LowerAll(name))))

(***************************************************************************)
(* to_cake_out: a stored document to a CakeOut, or a raised exception      *)
(* (pydantic's ValidationError, float()'s ValueError/TypeError, or the    *)
(* AttributeError of slugify(None)).                                       *)
(***************************************************************************)
OptStrValid(v) == v.tag \in {"null", "str"}

OptListValid(v) == v.tag \in {"null", "list"}

\* slug=doc.get("slug") or slugify(doc.get("name", "cake"))
SlugRaises(doc) ==
    /\ ~Truthy(Get(doc, "slug"))
    /\ GetD(doc, "name", Txt(CakeWord)).tag /= "txt"

SlugOf(doc) ==
    IF Truthy(Get(doc, "slug"))
    THEN Get(doc, "slug").s
    ELSE slugify(GetD(doc, "name", Txt(CakeWord)).toks)

\* No exception leaves to_cake_out(doc).
to_cake_out_ok(doc) ==
    /\ ~SlugRaises(doc)
    /\ Get(doc, "name").tag = "txt"
    /\ OptStrValid(Get(doc, "tagline"))
    /\ OptStrValid(Get(doc, "description"))
    /\ GetD(doc, "category", Str("Signature")).tag = "str"
    /\ GetD(doc, "category", Str("Signature")).s \in Categories
    /\ FloatOk(GetD(doc, "base_price", Num(0)))
    /\ OptStrValid(Get(doc, "image_url"))
    /\ OptStrValid(Get(doc, "model_url"))
    /\ OptListValid(Get(doc, "ingredients"))
    /\ OptListValid(Get(doc, "allergens"))
    /\ OptionsValid(Get(doc, "options"))

to_cake_out(doc) ==
    [id |-> ToString(doc._id),
     slug |-> SlugOf(doc),
     name |-> Get(doc, "name").toks,
     tagline |-> Get(doc, "tagline"),
     description |-> Get(doc, "description"),
     category |-> GetD(doc, "category", Str("Signature")).s,
     base_price |-> Float(GetD(doc, "base_price", Num(0))),
     image_url |-> Get(doc, "image_url"),
     model_url |-> Get(doc, "model_url"),
     ingredients |-> Get(doc, "ingredients"),
     allergens |-> Get(doc, "allergens"),
     options |-> Get(doc, "options"),
     featured |-> Truthy(GetD(doc, "featured", Bool(FALSE)))]

(***************************************************************************)
(* The documents                                                           *)
(***************************************************************************)
\* A document as written in the source, before the store gives it an _id
\* (_id 0 stands for "not stored"). Labels write 6" as 6in.
Doc(nm, sl, tg, de, ca, bp, im, mo, ing, al, op, fe) ==
    [_id |-> 0, name |-> nm, slug |-> sl, tagline |-> tg,
     description |-> de, category |-> ca, base_price |-> bp,
     image_url |-> im, model_url |-> mo, ingredients |-> ing,
     allergens |-> al, options |-> op, featured |-> fe]

PA(label, amount) == [label |-> label, amount |-> amount]

\* The three sample documents of ensure_seed_data.
samples ==
    << Doc(Txt(<<"Madagascar", " ", "Vanilla", " ", "Classic">>),
           Str("madagascar-vanilla-classic"),
           Str("Where elegance meets comfort."),
           Str("Moist Madagascar vanilla sponge layered with house-made salted caramel and finished with French buttercream."),
           Str("Signature"), Num(75),
           Str("https://images.unsplash.com/photo-1559622214-3f1b2c6e49a5?q=80&w=1200&auto=format&fit=crop"),
           Null,
           List(<<"Flour", "Sugar", "Butter", "Eggs", "Vanilla">>),
           List(<<"Dairy", "Eggs", "Gluten">>),
           List(<< [name |-> "Size",
                    values |-> << PA("6in (8 servings)", 0),
                                  PA("8in (14 servings)", 25),
                                  PA("10in (24 servings)", 60) >>],
                   [name |-> "Frosting",
                    values |-> << PA("French Buttercream", 0),
                                  PA("Swiss Meringue", 8),
                                  PA("Ganache", 12) >>] >>),
           Bool(TRUE)),
       Doc(Txt(<<"Dark", " ", "Cocoa", " ", "Truffle">>),
           Str("dark-cocoa-truffle"),
           Str("For the true chocolate purist."),
           Str("Rich dark chocolate sponge, layered with silky truffle ganache."),
           Str("Signature"), Num(85),
           Str("https://images.unsplash.com/photo-1606313564200-e75d5e30476c?q=80&w=1200&auto=format&fit=crop"),
           Null,
           List(<<"Cocoa", "Butter", "Sugar", "Eggs", "Cream">>),
           List(<<"Dairy", "Eggs", "Gluten">>),
           List(<< [name |-> "Size",
                    values |-> << PA("6in (8 servings)", 0),
                                  PA("8in (14 servings)", 28),
                                  PA("10in (24 servings)", 65) >>],
                   [name |-> "Filling",
                    values |-> << PA("Truffle Ganache", 0),
                                  PA("Raspberry Compote", 6) >>] >>),
           Bool(TRUE)),
       Doc(Txt(<<"Berry", " ", "Velvet">>),
           Str("berry-velvet"),
           Str("A jewel-toned celebration."),
           Str("Vanilla sponge, berry compote, mascarpone frosting."),
           Str("Birthday"), Num(78),
           Str("https://images.unsplash.com/photo-1562777717-dc6984f65a63?q=80&w=1200&auto=format&fit=crop"),
           Null,
           List(<<"Flour", "Sugar", "Eggs", "Mascarpone", "Berries">>),
           List(<<"Dairy", "Eggs", "Gluten">>),
           List(<< [name |-> "Frosting",
                    values |-> << PA("Mascarpone", 0),
                                  PA("Buttercream", 5) >>] >>),
           Bool(FALSE)) >>

\* _def_fallback: two of the samples, without ingredients, allergens, options.
DefFallback ==
    << Doc(Txt(<<"Madagascar", " ", "Vanilla", " ", "Classic">>),
           Str("madagascar-vanilla-classic"),
           Str("Where elegance meets comfort."),
           Str("Moist Madagascar vanilla sponge layered with house-made salted caramel and finished with French buttercream."),
           Str("Signature"), Num(75),
           Str("https://images.unsplash.com/photo-1559622214-3f1b2c6e49a5?q=80&w=1200&auto=format&fit=crop"),
           Null, Absent, Absent, Absent, Bool(TRUE)),
       Doc(Txt(<<"Dark", " ", "Cocoa", " ", "Truffle">>),
           Str("dark-cocoa-truffle"),
           Str("For the true chocolate purist."),
           Str("Rich dark chocolate sponge, layered with silky truffle ganache."),
           Str("Signature"), Num(85),
           Str("https://images.unsplash.com/photo-1606313564200-e75d5e30476c?q=80&w=1200&auto=format&fit=crop"),
           Null, Absent, Absent, Absent, Bool(TRUE)) >>

(***************************************************************************)
(* Documents of the administrative path (outside this program): one        *)
(* well-formed document and its variations in one or two fields.           *)
(***************************************************************************)
LemonName == Txt(<<"Lemon", " ", "Drizzle">>)

AdminBase ==
    Doc(LemonName, Str("lemon-drizzle"), Absent, Absent, Str("Seasonal"),
        Num(40), Absent, Absent, Absent, Absent, Absent, Bool(FALSE))

AdminDocs ==
    { AdminBase,
      \* no stored slug, a name with capitals and runs of whitespace
      [AdminBase EXCEPT !.slug = Absent,
          !.name = Txt(<<" ", "Lemon", " ", " ", "Drizzle", " ">>)],
      \* no stored category
      [AdminBase EXCEPT !.category = Absent],
      \* a category outside the enumeration
      [AdminBase EXCEPT !.category = Str("Cupcake")],
      \* a negative price
      [AdminBase EXCEPT !.base_price = Num(-5)],
      \* no stored featured flag
      [AdminBase EXCEPT !.featured = Absent],
      \* no name
      [AdminBase EXCEPT !.name = Absent],
      \* a negative price adjustment
      [AdminBase EXCEPT !.options =
          List(<< [name |-> "Size", values |-> << PA("Mini", -3) >>] >>)],
      \* a second well-formed document
      [AdminBase EXCEPT !.category = Str("Signature"), !.featured = Bool(TRUE),
          !.slug = Str("lemon-signature")] }

(***************************************************************************)
(* The document store (pymongo collection db["cake"])                      *)
(***************************************************************************)
\* An equality filter: a key not in the query is Absent.
Query(category, featured, slug) ==
    [category |-> category, featured |-> featured, slug |-> slug]

EmptyQuery == Query(Absent, Absent, Absent)

\* {key: value} matches a document whose stored value equals value; a
\* document without the key does not match, and true is not the number 1.
Matches(doc, query) ==
    /\ query.category /= Absent => doc.category = query.category
    /\ query.featured /= Absent => doc.featured = query.featured
    /\ query.slug /= Absent => doc.slug = query.slug

find(col, query) == SelectSeq(col, LAMBDA d : Matches(d, query))

\* find_one: the first match, or None.
find_one(col, query) ==
    IF find(col, query) = <<>> THEN Null ELSE Head(find(col, query))

count_documents(col, query) == Len(find(col, query))

\* insert_many: the store numbers the documents as it appends them.
insert_many(col, docs) ==
    col \o [i \in 1..Len(docs) |-> [docs[i] EXCEPT !._id = Len(col) + i]]

(***************************************************************************)
(* Responses                                                               *)
(***************************************************************************)
NoReq == [op |-> "none", category |-> Null, featured |-> Null, slug |-> Null,
          throws |-> FALSE]

NoResp == [status |-> 0, kind |-> "none", items |-> <<>>, error |-> ""]

OkList(items) == [status |-> 200, kind |-> "list", items |-> items, error |-> ""]

OkItem(item) == [status |-> 200, kind |-> "item", items |-> <<item>>, error |-> ""]

\* raise HTTPException(status_code=404, detail="Cake not found")
NotFound == [status |-> 404, kind |-> "error", items |-> <<>>,
             error |-> "Cake not found"]

\* An exception that leaves the handler: the server answers 500.
Raised(exc) == [status |-> 500, kind |-> "error", items |-> <<>>, error |-> exc]

(***************************************************************************)
(* ensure_static_fallback: the fallback list as CakeOut items              *)
(***************************************************************************)
ensure_static_fallback(fallback) ==
    [i \in 1..Len(fallback) |->
        [id |-> ToString(i - 1),
         slug |-> fallback[i].slug.s,
         name |-> fallback[i].name.toks,
         tagline |-> Get(fallback[i], "tagline"),
         description |-> Get(fallback[i], "description"),
         category |-> GetD(fallback[i], "category", Str("Signature")).s,
         base_price |-> Float(GetD(fallback[i], "base_price", Num(0))),
         image_url |-> Get(fallback[i], "image_url"),
         model_url |-> Get(fallback[i], "model_url"),
         ingredients |-> Null,
         allergens |-> Null,
         options |-> Null,
         featured |-> GetD(fallback[i], "featured", Bool(FALSE)).b]]

(***************************************************************************)
(* GET /cakes                                                              *)
(***************************************************************************)
\* query = {}; if category: ...; if featured is not None: ...
ListQuery(category, featured) ==
    Query(IF Truthy(category) THEN category ELSE Absent,
          IF featured /= Null THEN featured ELSE Absent,
          Absent)

\* [to_cake_out(d) for d in docs]: the first exception ends the comprehension.
ConvertAll(docs) ==
    IF \A i \in 1..Len(docs) : to_cake_out_ok(docs[i])
    THEN OkList([i \in 1..Len(docs) |-> to_cake_out(docs[i])])
    ELSE Raised("ValidationError")

\* list_cakes_response with the filters applied to the fallback list too.
list_cakes_response_filtering(dbm, col, fallback, category, featured, throws) ==
    IF dbm = "nomodule" THEN Raised("ImportError")
    ELSE IF dbm = "none"
    THEN OkList(SelectSeq(ensure_static_fallback(fallback),
             LAMBDA c : /\ Truthy(category) => c.category = category.s
                        /\ featured /= Null => c.featured = featured.b))
    ELSE IF throws THEN Raised("StoreError")
    ELSE ConvertAll(find(col, ListQuery(category, featured)))

list_cakes_response(dbm, col, fallback, category, featured, throws) ==
    IF dbm = "nomodule" THEN Raised("ImportError")
    ELSE IF dbm = "none" THEN OkList(ensure_static_fallback(fallback))
    ELSE IF throws THEN Raised("StoreError")
    ELSE ConvertAll(find(col, ListQuery(category, featured)))

(***************************************************************************)
(* GET /cakes/{slug}                                                       *)
(***************************************************************************)
FallbackBySlug(items, slug) == SelectSeq(items, LAMBDA c : c.slug = slug.s)

get_cake_response(dbm, col, fallback, slug, throws) ==
    IF dbm = "nomodule" THEN Raised("ImportError")
    ELSE IF dbm = "none"
    THEN IF FallbackBySlug(ensure_static_fallback(fallback), slug) = <<>>
         THEN NotFound
         ELSE OkItem(Head(FallbackBySlug(ensure_static_fallback(fallback), slug)))
    ELSE IF throws THEN Raised("StoreError")
    ELSE IF find_one(col, Query(Absent, Absent, slug)) = Null THEN NotFound
    ELSE IF to_cake_out_ok(find_one(col, Query(Absent, Absent, slug)))
    THEN OkItem(to_cake_out(find_one(col, Query(Absent, Absent, slug))))
    ELSE Raised("ValidationError")

(***************************************************************************)
(* ensure_seed_data                                                        *)
(***************************************************************************)
\* The body of the try block: the collection it leaves and whether it raised.
\* insert_many that raises has written the first `written` samples.
\* SeedTry without the `== 0` test: the samples are inserted whatever the count.
SeedTryNoCountTest(dbm, col, countThrows, insertThrows, written) ==
    IF dbm = "nomodule" THEN [col |-> col, raised |-> TRUE, how |-> "raised"]
    ELSE IF dbm = "none" THEN [col |-> col, raised |-> FALSE, how |-> "no_db"]
    ELSE IF countThrows THEN [col |-> col, raised |-> TRUE, how |-> "raised"]
    ELSE IF insertThrows
    THEN [col |-> insert_many(col, SubSeq(samples, 1, written)),
          raised |-> TRUE, how |-> "raised"]
    ELSE [col |-> insert_many(col, samples), raised |-> FALSE,
          how |-> IF count_documents(col, EmptyQuery) = 0
                  THEN "inserted" ELSE "skipped"]

SeedTry(dbm, col, countThrows, insertThrows, written) ==
    IF dbm = "nomodule" THEN [col |-> col, raised |-> TRUE, how |-> "raised"]
    ELSE IF dbm = "none" THEN [col |-> col, raised |-> FALSE, how |-> "no_db"]
    ELSE IF countThrows THEN [col |-> col, raised |-> TRUE, how |-> "raised"]
    ELSE IF count_documents(col, EmptyQuery) = 0
    THEN IF insertThrows
         THEN [col |-> insert_many(col, SubSeq(samples, 1, written)),
               raised |-> TRUE, how |-> "raised"]
         ELSE [col |-> insert_many(col, samples), raised |-> FALSE,
               how |-> "inserted"]
    ELSE [col |-> col, raised |-> FALSE, how |-> "skipped"]

\* SeedPropagates without the except clause.
SeedPropagatesUncaught(raised) == raised

\* except Exception: pass -- nothing raised in the body leaves the function.
SeedPropagates(raised) == FALSE

(***************************************************************************)
(* The state machine                                                       *)
(***************************************************************************)
DbModes == {"live", "none", "nomodule"}

\* The query parameters the requests are drawn from.
CategoryParams == {Null, Str(""), Str("Signature"), Str("Seasonal")}

FeaturedParams == {Null, Bool(TRUE), Bool(FALSE)}

SlugParams == {Str("lemon-drizzle"), Str("lemon-signature"),
               Str("dark-cocoa-truffle"), Str("nonexistent-slug")}

\* A store operation can throw only when there is a store handle.
ThrowChoices == IF db = "live" THEN BOOLEAN ELSE {FALSE}

Init ==
    /\ pc = "boot"
    /\ db \in DbModes
    /\ store = <<>>
    /\ def_fallback = DefFallback
    /\ seed_result = "pending"
    /\ req = NoReq
    /\ resp = NoResp

\* Module import runs ensure_seed_data() and then the routes are served.
ensure_seed_data ==
    /\ pc = "boot"
    /\ \E countThrows \in ThrowChoices, insertThrows \in ThrowChoices,
          written \in 0..Len(samples) :
          LET r == SeedTry(db, store, countThrows, insertThrows, written)
          IN /\ store' = r.col
             /\ seed_result' = r.how
             /\ pc' = IF SeedPropagates(r.raised) THEN "aborted" ELSE "serving"
    /\ UNCHANGED <<db, def_fallback, req, resp>>

list_cakes ==
    /\ pc = "serving"
    /\ \E category \in CategoryParams, featured \in FeaturedParams,
          throws \in ThrowChoices :
          /\ req' = [op |-> "list", category |-> category,
                     featured |-> featured, slug |-> Null, throws |-> throws]
          /\ resp' = list_cakes_response(db, store, def_fallback, category,
                                         featured, throws)
    /\ UNCHANGED <<pc, db, store, def_fallback, seed_result>>

\* get_cake that removes the document it serves from the collection.
get_cake_consuming ==
    /\ pc = "serving"
    /\ \E slug \in SlugParams, throws \in ThrowChoices :
          /\ req' = [op |-> "get", category |-> Null, featured |-> Null,
                     slug |-> slug, throws |-> throws]
          /\ resp' = get_cake_response(db, store, def_fallback, slug, throws)
          /\ store' = IF resp'.status = 200 /\ db = "live"
                      THEN SelectSeq(store, LAMBDA d : d.slug /= slug)
                      ELSE store
    /\ UNCHANGED <<pc, db, def_fallback, seed_result>>

get_cake ==
    /\ pc = "serving"
    /\ \E slug \in SlugParams, throws \in ThrowChoices :
          /\ req' = [op |-> "get", category |-> Null, featured |-> Null,
                     slug |-> slug, throws |-> throws]
          /\ resp' = get_cake_response(db, store, def_fallback, slug, throws)
    /\ UNCHANGED <<pc, db, store, def_fallback, seed_result>>

\* The administrative path writes a document into the collection. The
\* response in hand was delivered against the collection as it was.
AdminInsert ==
    /\ Len(store) < MaxStore
    /\ \E d \in AdminDocs : store' = insert_many(store, <<d>>)
    /\ req' = NoReq
    /\ resp' = NoResp
    /\ UNCHANGED <<pc, db, def_fallback, seed_result>>

\* The process is started again, against the same store.
Restart ==
    /\ pc = "serving"
    /\ pc' = "boot"
    /\ db' \in DbModes
    /\ seed_result' = "pending"
    /\ req' = NoReq
    /\ resp' = NoResp
    /\ UNCHANGED <<store, def_fallback>>

Next ==
    \/ ensure_seed_data
    \/ list_cakes
    \/ get_cake
    \/ AdminInsert
    \/ Restart

Spec == Init /\ [][Next]_vars

(***************************************************************************)
(* Properties                                                              *)
(***************************************************************************)
\* The unfiltered listing in the current state, the store answering.
ServedAll == list_cakes_response(db, store, def_fallback, Null, Null, FALSE)

\* The step is a run of ensure_seed_data.
SeedStep == pc = "boot" /\ pc' /= "boot"

\* The step is a request to /cakes or /cakes/{slug}.
ReadStep == pc' = "serving" /\ req'.op /= "none" /\ (req' /= req \/ resp' /= resp)

\* C1: seed idempotence -- a run of ensure_seed_data against a collection
\* that holds at least one record leaves the collection as it was: nothing
\* is inserted and nothing overwritten, however often it runs.
C1_SeedIdempotent == [][SeedStep /\ Len(store) >= 1 => store' = store]_vars

\* ensure_seed_data has run on a live store and found records in it.
C1_Witness ==
    /\ pc = "serving"
    /\ db = "live"
    /\ seed_result = "skipped"
    /\ Len(store) >= 1

\* C2: StoreUnavailable is never surfaced -- whenever db is None, the
\* database module cannot be loaded or a store operation throws, list_cakes
\* and get_cake answer from the static fallback list, not with an error.
C2_UnavailableServedFromFallback ==
    (req.op \in {"list", "get"} /\ (db /= "live" \/ req.throws)) =>
        /\ resp.status /= 500
        /\ req.op = "list" =>
              resp = OkList(ensure_static_fallback(def_fallback))
        /\ req.op = "get" =>
              resp = get_cake_response("none", store, def_fallback, req.slug,
                                       FALSE)

\* The served item c passes the supplied filter fields (an empty category
\* parameter is read as one not supplied).
PassesFilter(c, category, featured) ==
    /\ Truthy(category) => c.category = category.s
    /\ featured /= Null => c.featured = featured.b

\* C3: with a live store, list_cakes(c, f) returns, in store order, exactly
\* the items of the unfiltered listing whose served category equals c (when
\* c is supplied) and whose served featured flag equals f (when supplied).
C3_FilterIsExactOnServedItems ==
    (req.op = "list" /\ db = "live" /\ ~req.throws /\ ServedAll.status = 200) =>
        resp = OkList(SelectSeq(ServedAll.items,
                   LAMBDA c : PassesFilter(c, req.category, req.featured)))

\* C4: get_cake(s) returns an item with slug s exactly when the unfiltered
\* listing of the same state has an item with slug s (a slug derived from
\* the name included), and answers 404 "Cake not found" exactly when no
\* served item has slug s.
C4_GetAgreesWithListing ==
    (req.op = "get" /\ db \in {"live", "none"} /\ ~req.throws
        /\ ServedAll.status = 200) =>
        IF \E i \in 1..Len(ServedAll.items) : ServedAll.items[i].slug = req.slug.s
        THEN resp.status = 200 /\ resp.items[1].slug = req.slug.s
        ELSE resp = NotFound

\* The record has a usable name.
HasName(doc) == Get(doc, "name").tag = "txt"

\* C5: a record with no usable name is skipped -- when the live collection
\* holds such a record next to well-formed ones, list_cakes still succeeds
\* and returns the well-formed ones, in store order.
C5_MalformedRecordSkipped ==
    (req.op = "list" /\ db = "live" /\ ~req.throws
        /\ \E i \in 1..Len(store) : ~HasName(store[i])
        /\ \E j \in 1..Len(store) : HasName(store[j])
        /\ \A k \in 1..Len(store) : HasName(store[k]) => to_cake_out_ok(store[k])) =>
        resp = ConvertAll(SelectSeq(
                   find(store, ListQuery(req.category, req.featured)), HasName))

\* C6: seeding never aborts startup -- whatever happens in ensure_seed_data
\* (no store, count_documents or insert_many throwing at any point), it
\* returns normally and the process goes on to serve requests.
C6_SeedingNeverAborts ==
    /\ pc \in {"boot", "serving"}
    /\ pc = "boot" => ENABLED ensure_seed_data
    /\ seed_result /= "pending" => pc = "serving"

\* insert_many threw after writing one or two of the three samples, and the
\* process serves.
C6_Witness ==
    /\ pc = "serving"
    /\ seed_result = "raised"
    /\ db = "live"
    /\ Len(store) \in {1, 2}
    /\ store[1].slug = Str("madagascar-vanilla-classic")

\* C7: with db None, list_cakes returns the full fallback list -- the two
\* items madagascar-vanilla-classic and dark-cocoa-truffle, in that order --
\* for every combination of category and featured.
C7_FallbackIgnoresFilters ==
    (req.op = "list" /\ db = "none") =>
        /\ resp.status = 200
        /\ Len(resp.items) = 2
        /\ resp.items[1].slug = "madagascar-vanilla-classic"
        /\ resp.items[2].slug = "dark-cocoa-truffle"
        /\ resp = ServedAll

\* A listing without a store, under filters neither fallback item passes.
C7_Witness ==
    /\ db = "none"
    /\ req.op = "list"
    /\ req.category = Str("Seasonal")
    /\ req.featured = Bool(FALSE)
    /\ resp.status = 200

\* The category is one of the enumeration.
KnownCategory(doc) ==
    doc.category.tag = "str" /\ doc.category.s \in Categories

\* The record is served once its category is set aside.
GoodButCategory(doc) == to_cake_out_ok([doc EXCEPT !.category = Absent])

\* The documents the last request read from the store.
DocsRead ==
    IF req.op = "list"
    THEN find(store, ListQuery(req.category, req.featured))
    ELSE find(store, Query(Absent, Absent, req.slug))

\* C8: a stored record whose category is missing or not in the enumeration
\* is served with category "Signature" rather than rejected: the request
\* does not fail and every served category is in the enumeration.
C8_BadCategoryServedAsSignature ==
    (req.op \in {"list", "get"} /\ db = "live" /\ ~req.throws
        /\ DocsRead /= <<>>
        /\ \A i \in 1..Len(DocsRead) : GoodButCategory(DocsRead[i])) =>
        /\ resp.status = 200
        /\ \A i \in 1..Len(resp.items) :
              /\ resp.items[i].category \in Categories
              /\ ~KnownCategory(DocsRead[i]) =>
                    resp.items[i].category = "Signature"

\* Every price adjustment of the served options is at least 0.
AmountsNonNegative(options) ==
    options.tag = "list" =>
        \A i \in 1..Len(options.items) :
            \A j \in 1..Len(options.items[i].values) :
                options.items[i].values[j].amount >= 0

\* C9: every served item has base_price >= 0 and every price-adjustment
\* amount >= 0, whatever the store holds.
C9_ServedPricesNonNegative ==
    resp.status = 200 =>
        \A i \in 1..Len(resp.items) :
            /\ resp.items[i].base_price >= 0
            /\ AmountsNonNegative(resp.items[i].options)

\* C10: reads are side-effect free -- no request to /cakes or /cakes/{slug}
\* changes the collection or the fallback list, and the same request in an
\* unchanged store state gets the same response.
C10_ReadsAreSideEffectFree ==
    [][/\ ReadStep => store' = store /\ def_fallback' = def_fallback
       /\ (pc = "serving" /\ pc' = "serving" /\ req.op /= "none"
              /\ req' = req /\ store' = store
              /\ def_fallback' = def_fallback) =>
             resp' = resp]_vars

\* A slug was found in the live store and served.
C10_Witness ==
    /\ db = "live"
    /\ req.op = "get"
    /\ resp.status = 200
    /\ Len(store) >= 1

====
